---- MODULE Spec2Model ----
(***************************************************************************)
(* Model of the quote crate's ToTokens conversions (src/to_tokens.rs) and  *)
(* of the span-insensitive comparison (src/spanless_eq.rs).                *)
(*                                                                         *)
(* A value is a record tagged by the category of its Rust type ("cat"); a  *)
(* token is a TokenTree record [span, kind]; Tokens is a sequence of       *)
(* TokenTree.                                                              *)
(***************************************************************************)
EXTENDS Integers, Sequences, FiniteSets, TLC

VARIABLES pc, value, prefix, tokens, out, calls, a, b, ta, tb, verdict

vars == <<pc, value, prefix, tokens, out, calls, a, b, ta, tb, verdict>>

(***************************************************************************)
(* Bounds                                                                  *)
(***************************************************************************)
\* longest exhaustively enumerated slice / Vec / array / tuple
MaxLen == 3
\* number of successive to_tokens calls on one carrier (SpecSeq)
MaxCalls == 3

(***************************************************************************)
(* proc_macro2 token data: TokenTree { span, kind: TokenNode }             *)
(***************************************************************************)
DefaultSpan == "default"

Term(word) == [node |-> "Term", term |-> word]

Op(ch, spacing) == [node |-> "Op", ch |-> ch, spacing |-> spacing]

LiteralNode(lit) == [node |-> "Literal", lit |-> lit]

Group(delim, stream) == [node |-> "Group", delim |-> delim, stream |-> stream]

\* Literal encoder: a literal is its kind and its canonical text
Literal_num(ty, n) == [kind |-> ty, text |-> ToString(n) \o ty]

Literal_string(s) == [kind |-> "string", text |-> "\"" \o s \o "\""]

Literal_character(c) == [kind |-> "char", text |-> "'" \o c \o "'"]

Literal_byte_string(s) == [kind |-> "byte_string", text |-> "b\"" \o s \o "\""]

\* Tokens: the carrier
TokensNew == <<>>

append(tokens_, token) == Append(tokens_, token)

(***************************************************************************)
(* Values, by the category of their type                                   *)
(***************************************************************************)
Bool(x) == [cat |-> "bool", b |-> x]

Prim(ty, n) == [cat |-> "prim", ty |-> ty, n |-> n]

Char(c) == [cat |-> "char", c |-> c]

Str(s) == [cat |-> "str", s |-> s]

StringV(s) == [cat |-> "String", s |-> s]

TermV(w) == [cat |-> "Term", term |-> w]

ByteStr(s) == [cat |-> "ByteStr", s |-> s]

Ref(v) == [cat |-> "ref", inner |-> v]

Cow(v) == [cat |-> "cow", inner |-> v]

Box(v) == [cat |-> "box", inner |-> v]

Some(v) == [cat |-> "some", inner |-> v]

None == [cat |-> "none"]

Slice(items) == [cat |-> "slice", items |-> items]

Vec(items) == [cat |-> "vec", items |-> items]

Array(items) == [cat |-> "array", items |-> items]

Tuple(items) == [cat |-> "tuple", items |-> items]

(***************************************************************************)
(* src/to_tokens.rs                                                        *)
(***************************************************************************)
tt(kind) == [span |-> DefaultSpan, kind |-> kind]

RECURSIVE to_tokens(_, _)

to_tokens_ref(self, tokens_) == to_tokens(self.inner, tokens_)

to_tokens_cow(self, tokens_) == to_tokens(self.inner, tokens_)

\* variant: the boxed value's tokens are wrapped in an undelimited Group
to_tokens_box_grouped(self, tokens_) ==
    append(tokens_, tt(Group("None", to_tokens(self.inner, TokensNew))))

to_tokens_box(self, tokens_) == to_tokens(self.inner, tokens_)

\* variant: an absent optional leaves a marker token
to_tokens_option_marker(self, tokens_) ==
    IF self.cat = "some" THEN to_tokens(self.inner, tokens_)
    ELSE append(tokens_, tt(Term("None")))

to_tokens_option(self, tokens_) ==
    IF self.cat = "some" THEN to_tokens(self.inner, tokens_) ELSE tokens_

to_tokens_term(self, tokens_) == append(tokens_, tt(Term(self.term)))

to_tokens_str(self, tokens_) ==
    append(tokens_, tt(LiteralNode(Literal_string(self.s))))

to_tokens_string(self, tokens_) == to_tokens_str(Str(self.s), tokens_)

PrimTypes ==
    {"i8", "i16", "i32", "i64", "isize",
     "u8", "u16", "u32", "u64", "usize",
     "f32", "f64"}

to_tokens_primitive(self, tokens_) ==
    append(tokens_, tt(LiteralNode(Literal_num(self.ty, self.n))))

to_tokens_char(self, tokens_) ==
    append(tokens_, tt(LiteralNode(Literal_character(self.c))))

\* variant: a boolean is encoded as a Literal
to_tokens_bool_literal(self, tokens_) ==
    LET word == IF self.b THEN "true" ELSE "false"
    IN  append(tokens_, tt(LiteralNode([kind |-> "bool", text |-> word])))

to_tokens_bool(self, tokens_) ==
    LET word == IF self.b THEN "true" ELSE "false"
    IN  append(tokens_, tt(Term(word)))

to_tokens_bytestr(self, tokens_) ==
    LET lit == Literal_byte_string(self.s)
    IN  append(tokens_, tt(LiteralNode(lit)))

\* variant: commas separate the items, none follows the last
RECURSIVE slice_loop_separated(_, _, _)
slice_loop_separated(items, i, sub) ==
    IF Len(sub) >= 0 /\ i > Len(items) THEN sub
    ELSE slice_loop_separated(items, i + 1,
            IF i < Len(items)
            THEN append(to_tokens(items[i], sub), tt(Op(",", "Alone")))
            ELSE to_tokens(items[i], sub))

\* `for item in self { ... }` from item i on; sub is what the earlier
\* iterations built (its length is taken so that it is computed before the
\* next iteration starts)
RECURSIVE slice_loop(_, _, _)
slice_loop(items, i, sub) ==
    IF Len(sub) >= 0 /\ i > Len(items) THEN sub
    ELSE slice_loop(items, i + 1,
                    append(to_tokens(items[i], sub), tt(Op(",", "Alone"))))

\* variant: the items are written to the outer carrier instead of sub
to_tokens_slice_leaking(self, tokens_) ==
    LET sub == TokensNew
    IN  append(slice_loop(self.items, 1, tokens_), tt(Group("Bracket", sub)))

to_tokens_slice(self, tokens_) ==
    LET sub == slice_loop(self.items, 1, TokensNew)
    IN  append(tokens_, tt(Group("Bracket", sub)))

to_tokens_vec(self, tokens_) == to_tokens_slice(Slice(self.items), tokens_)

\* array_impls! { 0 1 ... 32 }
ArrayLens == 0..32

\* variant: the impl for [T; 0] writes nothing
to_tokens_array_empty(self, tokens_) ==
    IF Len(self.items) = 0 THEN tokens_
    ELSE to_tokens_slice(Slice(self.items), tokens_)

to_tokens_array(self, tokens_) == to_tokens_slice(Slice(self.items), tokens_)

\* tuple_impls! { Tuple0 {} ... Tuple12 { (0) -> A ... (11) -> L } }
TupleArities == 0..12

\* variant: commas separate the components, none follows the last
RECURSIVE tuple_repeat_separated(_, _, _)
tuple_repeat_separated(self, idx, sub) ==
    IF Len(sub) >= 0 /\ idx > Len(self.items) THEN sub
    ELSE tuple_repeat_separated(self, idx + 1,
            IF idx < Len(self.items)
            THEN append(to_tokens(self.items[idx], sub), tt(Op(",", "Alone")))
            ELSE to_tokens(self.items[idx], sub))

\* the repetition $( self.$idx.to_tokens(&mut _sub); _sub.append(,); )*
\* from component idx on (the length of sub is taken as in slice_loop)
RECURSIVE tuple_repeat(_, _, _)
tuple_repeat(self, idx, sub) ==
    IF Len(sub) >= 0 /\ idx > Len(self.items) THEN sub
    ELSE tuple_repeat(self, idx + 1,
                      append(to_tokens(self.items[idx], sub), tt(Op(",", "Alone"))))

to_tokens_tuple(self, tokens_) ==
    LET sub == tuple_repeat(self, 1, TokensNew)
    IN  append(tokens_, tt(Group("Parenthesis", sub)))

\* static dispatch of ToTokens::to_tokens on the type of self
to_tokens(self, tokens_) ==
    CASE self.cat = "ref" -> to_tokens_ref(self, tokens_)
      [] self.cat = "cow" -> to_tokens_cow(self, tokens_)
      [] self.cat = "box" -> to_tokens_box(self, tokens_)
      [] self.cat \in {"some", "none"} -> to_tokens_option(self, tokens_)
      [] self.cat = "Term" -> to_tokens_term(self, tokens_)
      [] self.cat = "str" -> to_tokens_str(self, tokens_)
      [] self.cat = "String" -> to_tokens_string(self, tokens_)
      [] self.cat = "prim" -> to_tokens_primitive(self, tokens_)
      [] self.cat = "char" -> to_tokens_char(self, tokens_)
      [] self.cat = "bool" -> to_tokens_bool(self, tokens_)
      [] self.cat = "ByteStr" -> to_tokens_bytestr(self, tokens_)
      [] self.cat = "slice" -> to_tokens_slice(self, tokens_)
      [] self.cat = "vec" -> to_tokens_vec(self, tokens_)
      [] self.cat = "array" -> to_tokens_array(self, tokens_)
      [] self.cat = "tuple" -> to_tokens_tuple(self, tokens_)

into_tokens(self) ==
    LET tokens_ == TokensNew
    IN  to_tokens(self, tokens_)

\* `where Self: Sized`: str and [T] are the unsized types of the catalogue
Sized(v) == v.cat \notin {"str", "slice"}

(***************************************************************************)
(* src/spanless_eq.rs                                                      *)
(***************************************************************************)
RECURSIVE SpanlessEq(_, _)

\* variant: the delimiter of a Group is not compared
SpanlessEqToken_any_delim(x, y) ==
    /\ x.kind.node = y.kind.node
    /\ CASE x.kind.node = "Term" -> x.kind.term = y.kind.term
         [] x.kind.node = "Literal" ->
                /\ x.kind.lit.kind = y.kind.lit.kind
                /\ x.kind.lit.text = y.kind.lit.text
         [] x.kind.node = "Op" ->
                /\ x.kind.ch = y.kind.ch
                /\ x.kind.spacing = y.kind.spacing
         [] x.kind.node = "Group" ->
                SpanlessEq(x.kind.stream, y.kind.stream)

\* SpanlessEq for one token: same TokenNode variant and equal content;
\* the span field is not read
SpanlessEqToken(x, y) ==
    /\ x.kind.node = y.kind.node
    /\ CASE x.kind.node = "Term" -> x.kind.term = y.kind.term
         [] x.kind.node = "Literal" ->
                /\ x.kind.lit.kind = y.kind.lit.kind
                /\ x.kind.lit.text = y.kind.lit.text
         [] x.kind.node = "Op" ->
                /\ x.kind.ch = y.kind.ch
                /\ x.kind.spacing = y.kind.spacing
         [] x.kind.node = "Group" ->
                /\ x.kind.delim = y.kind.delim
                /\ SpanlessEq(x.kind.stream, y.kind.stream)

\* SpanlessEq::spanless_eq(&ta, &tb) on two token sequences
SpanlessEq(x, y) ==
    IF Len(x) # Len(y) THEN FALSE
    ELSE \A i \in 1..Len(x) : SpanlessEqToken(x[i], y[i])

\* variant: a is converted twice
spanless_eq_a_twice(a_, b_) ==
    LET ta_ == to_tokens(a_, TokensNew)
        tb_ == to_tokens(a_, TokensNew)
    IN  [ta |-> ta_, tb |-> tb_, result |-> SpanlessEq(ta_, tb_)]

\* variant: b is converted onto ta, after a, and tb stays empty
spanless_eq_one_carrier(a_, b_) ==
    LET ta_ == to_tokens(b_, to_tokens(a_, TokensNew))
        tb_ == TokensNew
    IN  [ta |-> ta_, tb |-> tb_, result |-> SpanlessEq(ta_, tb_)]

\* pub fn spanless_eq<T: ToTokens>(a: &T, b: &T) -> bool
spanless_eq(a_, b_) ==
    LET ta_ == to_tokens(a_, TokensNew)
        tb_ == to_tokens(b_, TokensNew)
    IN  [ta |-> ta_, tb |-> tb_, result |-> SpanlessEq(ta_, tb_)]

(***************************************************************************)
(* Inputs                                                                  *)
(***************************************************************************)
SeqsUpTo(S, n) == UNION {[1..k -> S] : k \in 0..n}

Comma == tt(Op(",", "Alone"))

\* the first n items of the endless repetition of pattern
Cycle(pattern, n) == [i \in 1..n |-> pattern[((i - 1) % Len(pattern)) + 1]]

Wrappers(S) == {Ref(v) : v \in S} \cup {Cow(v) : v \in S} \cup {Box(v) : v \in S}

Options(S) == {None} \cup {Some(v) : v \in S}

Arrays(S, n) == {Array(s) : s \in {t \in SeqsUpTo(S, n) : Len(t) \in ArrayLens}}

Tuples(S, n) == {Tuple(s) : s \in {t \in SeqsUpTo(S, n) : Len(t) \in TupleArities}}

Sequences(S, n) ==
    {Slice(s) : s \in SeqsUpTo(S, n)} \cup {Vec(s) : s \in SeqsUpTo(S, n)}
        \cup Arrays(S, n)

Bools == {Bool(TRUE), Bool(FALSE)}

I32s == {Prim("i32", n) : n \in {1, 2, 3}}

Leaves ==
    Bools \cup {Prim(ty, n) : ty \in PrimTypes, n \in {1, 7}}
        \cup {Char("a"), Str("a"), Str(""), StringV("a"), TermV("x"), ByteStr("a")}

OptOpts == Options(Options({Prim("i32", 1)}))

TupleComps == {Bool(TRUE), Prim("u8", 1), None, Vec(<<Prim("i32", 1)>>)}

LongPattern ==
    <<Bool(FALSE), Prim("i64", 7), Ref(Str("a")), None, Some(Char("a")),
      Tuple(<<>>), Vec(<<Prim("i32", 1), Prim("i32", 2)>>)>>

Values ==
    Leaves
      \cup Wrappers(Leaves) \cup Wrappers(Wrappers(Bools \cup {Str("a")}))
      \cup Options(Leaves \ {Str("a"), Str("")}) \cup OptOpts
      \cup Wrappers(OptOpts) \cup Options(Wrappers({Str("a"), Prim("i32", 1)}))
      \cup Sequences(I32s, MaxLen) \cup Sequences(Bools, MaxLen)
      \cup Sequences(OptOpts, MaxLen - 1)
      \cup Sequences({Vec(<<>>), Vec(<<Prim("i32", 1)>>)}, MaxLen - 1)
      \cup Wrappers(Sequences(I32s, MaxLen - 1))
      \cup {Array(Cycle(<<Prim("i32", 7), Prim("i32", 8), Prim("i32", 9)>>, n)) :
                n \in ArrayLens}
      \cup Tuples(TupleComps, MaxLen)
      \cup {Tuple(Cycle(LongPattern, k)) : k \in TupleArities}

\* carriers as they may be before a call, some with tokens of other spans
Prefixes ==
    {<<>>,
     <<[span |-> "elsewhere", kind |-> Term("x")]>>,
     <<tt(Group("Bracket", <<tt(LiteralNode(Literal_num("i32", 1))), Comma>>)),
       [span |-> "elsewhere", kind |-> Op(";", "Joint")]>>}

\* values for successive calls on one carrier
SeqValues ==
    {Bool(TRUE), Prim("i32", 1), Ref(Str("a")), None, Some(Prim("i32", 2)),
     Vec(<<>>), Vec(<<Prim("i32", 1), Prim("i32", 2)>>),
     Array(<<None, Some(Bool(FALSE))>>),
     Tuple(<<>>), Tuple(<<Bool(TRUE), Vec(<<Prim("i32", 1)>>)>>)}

\* the types compared by spanless_eq<T>: each a set of values of one type
EqTypes ==
    {Bools, {Prim("i32", 1), Prim("i32", 2)}, {Prim("f64", 1), Prim("f64", 2)},
     {Char("a"), Char("b")}, {StringV("a"), StringV("b")},
     {TermV("x"), TermV("true")}, {ByteStr("a"), ByteStr("b")},
     {Ref(Str("a")), Ref(Str("b"))}, {Cow(Str("a")), Cow(Str("b"))},
     {Box(Bool(TRUE)), Box(Bool(FALSE))},
     OptOpts,
     {Vec(s) : s \in SeqsUpTo({Prim("i32", 1), Prim("i32", 2)}, MaxLen)},
     {Vec(s) : s \in SeqsUpTo(OptOpts, MaxLen)},
     {Ref(Slice(s)) : s \in SeqsUpTo(Bools, MaxLen)},
     {Vec(s) : s \in SeqsUpTo({Vec(<<>>), Vec(<<Prim("i32", 1)>>)}, MaxLen - 1)},
     {Tuple(<<>>)},
     {Tuple(<<x, y>>) : x \in Bools, y \in OptOpts},
     {Tuple(Cycle(<<x>>, 12)) : x \in Bools}}
      \cup {{Array(s) : s \in [1..n -> {Prim("i32", 1), Prim("i32", 2)}]} :
                n \in 0..MaxLen}
      \cup {{Array(Cycle(<<x, Prim("u8", 2)>>, 32)) :
                x \in {Prim("u8", 1), Prim("u8", 2)}}}

EqPairs == UNION {T \X T : T \in EqTypes}

\* raw token trees, with tokens of every kind under both spans
TreeTokens ==
    {[span |-> "default", kind |-> Term("a")],
     [span |-> "elsewhere", kind |-> Term("a")],
     [span |-> "default", kind |-> Term("1")],
     [span |-> "default", kind |-> LiteralNode([kind |-> "i32", text |-> "1"])],
     [span |-> "elsewhere", kind |-> LiteralNode([kind |-> "i64", text |-> "1"])],
     [span |-> "default", kind |-> Op(",", "Alone")],
     [span |-> "elsewhere", kind |-> Op(",", "Joint")],
     [span |-> "default",
      kind |-> Group("Bracket", <<[span |-> "default", kind |-> Term("a")]>>)],
     [span |-> "elsewhere",
      kind |-> Group("Bracket", <<[span |-> "elsewhere", kind |-> Term("a")]>>)],
     [span |-> "default",
      kind |-> Group("Parenthesis", <<[span |-> "default", kind |-> Term("a")]>>)]}

\* longest raw token tree compared (SpecTrees)
MaxTreeLen == 2

Trees == SeqsUpTo(TreeTokens, MaxTreeLen)

(***************************************************************************)
(* Spec: one call of to_tokens onto a carrier, or of into_tokens           *)
(***************************************************************************)
Init ==
    /\ pc = "start"
    /\ value \in Values
    /\ prefix \in Prefixes
    /\ tokens = prefix
    /\ out = <<>>
    /\ calls = <<>> /\ a = None /\ b = None /\ ta = <<>> /\ tb = <<>>
    /\ verdict = FALSE

ToTokensCall ==
    /\ pc = "start"
    /\ tokens' = to_tokens(value, tokens)
    /\ pc' = "to_tokens"
    /\ UNCHANGED <<value, prefix, out, calls, a, b, ta, tb, verdict>>

IntoTokensCall ==
    /\ pc = "start"
    /\ Sized(value)
    /\ out' = into_tokens(value)
    /\ pc' = "into_tokens"
    /\ UNCHANGED <<value, prefix, tokens, calls, a, b, ta, tb, verdict>>

Next == ToTokensCall \/ IntoTokensCall

Spec == Init /\ [][Next]_vars

(***************************************************************************)
(* SpecSeq: successive to_tokens calls on the same carrier                 *)
(***************************************************************************)
InitSeq ==
    /\ pc = "seq"
    /\ prefix \in Prefixes
    /\ tokens = prefix
    /\ calls = <<>>
    /\ value = None /\ out = <<>> /\ a = None /\ b = None
    /\ ta = <<>> /\ tb = <<>> /\ verdict = FALSE

AppendCall(v) ==
    /\ Len(calls) < MaxCalls
    /\ tokens' = to_tokens(v, tokens)
    /\ calls' = Append(calls, v)
    /\ UNCHANGED <<pc, value, prefix, out, a, b, ta, tb, verdict>>

NextSeq == \E v \in SeqValues : AppendCall(v)

SpecSeq == InitSeq /\ [][NextSeq]_vars

(***************************************************************************)
(* SpecEq: spanless_eq(a, b) on two values of one type                     *)
(***************************************************************************)
InitEq ==
    /\ pc = "start"
    /\ \E p \in EqPairs : a = p[1] /\ b = p[2]
    /\ ta = <<>> /\ tb = <<>> /\ verdict = FALSE
    /\ value = None /\ prefix = <<>> /\ tokens = <<>> /\ out = <<>>
    /\ calls = <<>>

SpanlessEqCall ==
    /\ pc = "start"
    /\ LET r == spanless_eq(a, b)
       IN  /\ ta' = r.ta
           /\ tb' = r.tb
           /\ verdict' = r.result
    /\ pc' = "done"
    /\ UNCHANGED <<value, prefix, tokens, out, calls, a, b>>

NextEq == SpanlessEqCall

SpecEq == InitEq /\ [][NextEq]_vars

(***************************************************************************)
(* SpecTrees: SpanlessEq::spanless_eq on two raw token trees               *)
(***************************************************************************)
InitTrees ==
    /\ pc = "start"
    /\ ta \in Trees
    /\ tb \in Trees
    /\ verdict = FALSE
    /\ value = None /\ prefix = <<>> /\ tokens = <<>> /\ out = <<>>
    /\ calls = <<>> /\ a = None /\ b = None

CompareTrees ==
    /\ pc = "start"
    /\ verdict' = SpanlessEq(ta, tb)
    /\ pc' = "done"
    /\ UNCHANGED <<value, prefix, tokens, out, calls, a, b, ta, tb>>

NextTrees == CompareTrees

SpecTrees == InitTrees /\ [][NextTrees]_vars

(***************************************************************************)
(* Properties                                                              *)
(***************************************************************************)
\* tokens(e): what converting e onto a new carrier gives
TokensOf(v) == to_tokens(v, TokensNew)

\* tokens(e1), comma, tokens(e2), comma, ..., tokens(en), comma
RECURSIVE WithCommas(_)
WithCommas(items) ==
    IF items = <<>> THEN <<>>
    ELSE TokensOf(Head(items)) \o <<Comma>> \o WithCommas(Tail(items))

Lit(ty, n) == tt(LiteralNode(Literal_num(ty, n)))

Appended == SubSeq(tokens, Len(prefix) + 1, Len(tokens))

\* C1: converting a slice or Vec of n >= 0 elements appends exactly one
\* token, a Bracket Group holding tokens(e1), comma, ..., tokens(en), comma
\* in element order, with a comma after every element, the last included;
\* nothing inside for n = 0, and lit(1), comma, lit(2), comma, lit(3), comma
\* for [1, 2, 3].
C1_SequenceIsBracketGroup ==
    (pc = "to_tokens" /\ value.cat \in {"slice", "vec"}) =>
        /\ tokens = prefix \o <<tt(Group("Bracket", WithCommas(value.items)))>>
        /\ value.items = <<>> => Appended[1].kind.stream = <<>>
        /\ value.items = <<Prim("i32", 1), Prim("i32", 2), Prim("i32", 3)>> =>
               Appended[1].kind.stream =
                   <<Lit("i32", 1), Comma, Lit("i32", 2), Comma,
                     Lit("i32", 3), Comma>>

C1_Witness ==
    /\ pc = "to_tokens"
    /\ value = Vec(<<Prim("i32", 1), Prim("i32", 2), Prim("i32", 3)>>)
    /\ Len(prefix) = 2
    /\ Len(tokens) = 3
    /\ tokens[3].kind.node = "Group"
    /\ Len(tokens[3].kind.stream) = 6

\* C2: converting a tuple of arity k in 0..12 appends exactly one token, a
\* Parenthesis Group holding tokens(c1), comma, ..., tokens(ck), comma in
\* component order, with a comma after every component, the last included;
\* nothing inside for the 0-tuple, and tokens(x), comma for the 1-tuple (x,).
C2_TupleIsParenGroup ==
    (pc = "to_tokens" /\ value.cat = "tuple") =>
        /\ Len(value.items) \in TupleArities
        /\ tokens = prefix \o <<tt(Group("Parenthesis", WithCommas(value.items)))>>
        /\ Len(value.items) = 0 => Appended[1].kind.stream = <<>>
        /\ Len(value.items) = 1 =>
               Appended[1].kind.stream = TokensOf(value.items[1]) \o <<Comma>>

C2_Witness ==
    /\ pc = "to_tokens"
    /\ value.cat = "tuple"
    /\ Len(value.items) = 12
    /\ Len(tokens) = Len(prefix) + 1
    /\ tokens[Len(tokens)].kind.delim = "Parenthesis"
    /\ tokens[Len(tokens)].kind.stream[Len(tokens[Len(tokens)].kind.stream)] = Comma

\* C3: for every length in 0..32, an array, a Vec and a slice of the same
\* elements convert to token trees that are spanless-equal (and identical);
\* so do the array [7, 8, 9] and the Vec of 7, 8, 9.
C3_ArrayLikeVecAndSlice ==
    (pc = "into_tokens" /\ value.cat = "array") =>
        /\ Len(value.items) \in ArrayLens
        /\ SpanlessEq(out, into_tokens(Vec(value.items)))
        /\ SpanlessEq(out, to_tokens(Slice(value.items), TokensNew))
        /\ out = into_tokens(Vec(value.items))
        /\ Len(out) = 1 /\ out[1].kind.node = "Group"

C3_Witness ==
    /\ pc = "into_tokens"
    /\ value = Array(<<Prim("i32", 7), Prim("i32", 8), Prim("i32", 9)>>)
    /\ out = into_tokens(Vec(<<Prim("i32", 7), Prim("i32", 8), Prim("i32", 9)>>))
    /\ Len(out[1].kind.stream) = 6

\* C4: converting an absent optional leaves the carrier exactly as it was;
\* converting a present one leaves it as converting the inner value does,
\* with no Group or marker added.
C4_OptionAbsentOrInner ==
    (pc = "to_tokens" /\ value.cat \in {"some", "none"}) =>
        /\ value.cat = "none" => tokens = prefix
        /\ value.cat = "some" =>
               /\ tokens = to_tokens(value.inner, prefix)
               /\ Appended = TokensOf(value.inner)

C4_Witness ==
    /\ pc = "to_tokens"
    /\ value = None
    /\ Len(prefix) = 2
    /\ tokens = prefix

\* C8: converting true appends exactly one token, the Term "true", and
\* converting false exactly one, the Term "false"; never a Literal.
C8_BoolIsTerm ==
    (pc = "to_tokens" /\ value.cat = "bool") =>
        /\ tokens = prefix \o <<tt(Term(IF value.b THEN "true" ELSE "false"))>>
        /\ Appended[1].kind.node # "Literal"

C8_Witness ==
    /\ pc = "to_tokens"
    /\ value = Bool(FALSE)
    /\ Len(prefix) = 1
    /\ tokens[2].kind = Term("false")

\* the value under all the passthrough wrappers of v
RECURSIVE Unwrapped(_)
Unwrapped(v) ==
    IF v.cat \in {"ref", "cow", "box"} THEN Unwrapped(v.inner) ELSE v

\* C9: converting a reference, Cow or Box of v, nested to any depth,
\* appends exactly the tokens that converting v appends: no Group and no
\* other token is added.
C9_Passthrough ==
    (pc = "to_tokens" /\ value.cat \in {"ref", "cow", "box"}) =>
        /\ tokens = to_tokens(Unwrapped(value), prefix)
        /\ Appended = TokensOf(Unwrapped(value))

C9_Witness ==
    /\ pc = "to_tokens"
    /\ value = Box(Ref(Bool(TRUE)))
    /\ Len(prefix) = 2
    /\ Appended = <<tt(Term("true"))>>

\* toTokenTree(v1), ..., toTokenTree(vn), one after the other
RECURSIVE Trees_of(_)
Trees_of(vs) ==
    IF vs = <<>> THEN <<>> ELSE into_tokens(Head(vs)) \o Trees_of(Tail(vs))

\* C10: after to_tokens(v1, c), ..., to_tokens(vn, c) on a carrier that
\* held p, the carrier holds p followed by into_tokens(v1), ...,
\* into_tokens(vn) in call order; what it held is not touched, and a
\* sequence or tuple contributes its one Group and nothing beside it.
C10_AppendOnly ==
    pc = "seq" =>
        /\ tokens = prefix \o Trees_of(calls)
        /\ SubSeq(tokens, 1, Len(prefix)) = prefix
        /\ \A i \in 1..Len(calls) :
               calls[i].cat \in {"slice", "vec", "array", "tuple"} =>
                   /\ Len(into_tokens(calls[i])) = 1
                   /\ into_tokens(calls[i])[1].kind.node = "Group"

C10_Witness ==
    /\ pc = "seq"
    /\ Len(prefix) = 2
    /\ calls = <<Vec(<<Prim("i32", 1), Prim("i32", 2)>>), None, Bool(TRUE)>>
    /\ Len(tokens) = 4
    /\ tokens[3].kind.node = "Group"
    /\ tokens[4].kind = Term("true")

\* a token tree with the span of every token set to the default
RECURSIVE Erased(_)
Erased(tree) ==
    [i \in 1..Len(tree) |->
        [span |-> DefaultSpan,
         kind |-> IF tree[i].kind.node = "Group"
                  THEN Group(tree[i].kind.delim, Erased(tree[i].kind.stream))
                  ELSE tree[i].kind]]

\* C5: SpanlessEq of two token trees is true exactly when the trees are
\* identical once every span is erased; trees that differ only in spans
\* are equal, and a Bracket Group never equals a Parenthesis Group of the
\* same contents.
C5_EqualIffSameWithoutSpans ==
    pc = "done" =>
        /\ verdict = (Erased(ta) = Erased(tb))
        /\ (/\ Len(ta) = 1 /\ Len(tb) = 1
            /\ ta[1].kind.node = "Group" /\ tb[1].kind.node = "Group"
            /\ ta[1].kind.delim # tb[1].kind.delim) => verdict = FALSE

C5_Witness ==
    /\ pc = "done"
    /\ Len(ta) = 2
    /\ ta # tb
    /\ ta[1].kind.node = "Group"
    /\ ta[1].span # tb[1].span
    /\ verdict = TRUE

IsSequence(v) == v.cat \in {"slice", "vec", "array"}

Count(s, x) == Cardinality({i \in 1..Len(s) : s[i] = x})

\* t holds the elements of s, each as many times, in some order
IsReordering(s, t) ==
    /\ Len(s) = Len(t)
    /\ \A i \in 1..Len(s) : Count(s, s[i]) = Count(t, s[i])

\* C6 as stated: comparing a sequence with a reordering of it gives false,
\* unless the sequence is empty or has one element, when it gives true
\* (only reorderings that give a different sequence are held to give false).
C6_AnyReorderingDiffers ==
    (pc = "done" /\ IsSequence(a) /\ b.cat = a.cat
        /\ IsReordering(a.items, b.items)) =>
        /\ Len(a.items) <= 1 => verdict = TRUE
        /\ a.items # b.items => verdict = FALSE

\* C6 amended: comparing a sequence with a reordering of it gives true
\* exactly when at every index the two elements convert to spanless-equal
\* tokens, which covers the empty and one-element sequences.
C6_ReorderingEqualIffElementwise ==
    (pc = "done" /\ IsSequence(a) /\ b.cat = a.cat
        /\ IsReordering(a.items, b.items)) =>
        /\ verdict = (\A i \in 1..Len(a.items) :
                          SpanlessEq(TokensOf(a.items[i]), TokensOf(b.items[i])))
        /\ Len(a.items) <= 1 => verdict = TRUE

C6_Witness ==
    /\ pc = "done"
    /\ a.cat = "vec"
    /\ Len(a.items) = 3
    /\ IsReordering(a.items, b.items)
    /\ a.items[1] # b.items[1]
    /\ TokensOf(a.items[1]) = TokensOf(b.items[1])
    /\ a.items[3] = b.items[3]
    /\ verdict = TRUE

\* C7: spanless_eq(v, v) is true for every value v: v is converted twice,
\* each time onto a new empty carrier, the two token sequences are equal
\* without spans, and v is left as it was.
C7_Reflexive ==
    [][(pc = "start" /\ pc' = "done" /\ a = b) =>
          /\ verdict' = TRUE
          /\ ta' = into_tokens(a)
          /\ tb' = into_tokens(a)
          /\ Erased(ta') = Erased(tb')
          /\ a' = a /\ b' = b]_vars

C7_Witness ==
    /\ pc = "done"
    /\ a = b
    /\ a.cat = "tuple"
    /\ Len(a.items) = 12
    /\ Len(ta) = 1
    /\ verdict = TRUE

====
